---- MODULE Spec2Model ----
(***************************************************************************)
(* A model of InterParser: the compile-argument log parser (ccargparse.py) *)
(* and the zend_parse_parameters call-site scanner (parse_php.py).         *)
(*                                                                         *)
(* Text is modelled as sequences of one-character strings, so that         *)
(* str.split(" "), str.endswith and slicing are computed character by      *)
(* character as Python computes them.                                      *)
(***************************************************************************)
EXTENDS Integers, Sequences, FiniteSets, TLC

VARIABLES
    data_file,   \* ccargparse: the whole text of the compiler-wrapper log
    fd,          \* ccargparse: the text of the log not yet read
    ret,         \* ccargparse: load_project_data's local dictionary
    load_pc,     \* ccargparse: "reading", "returned" or "CompileArgsError"
    load_result, \* ccargparse: what load_project_data handed to its caller
    tu,            \* parse_php: the children of the translation unit's root cursor
    file_filter,   \* parse_php: process_all_functions' file_filter argument
    globals_only,  \* parse_php: process_all_functions' globals_only argument
    scan_pc,       \* parse_php: "idle", "loop", "bfs", "returned" or "IndexError"
    child_idx,     \* parse_php: position of the loop over the root's children
    res,           \* parse_php: process_all_functions' local dictionary
    to_process,    \* parse_php: process_function's queue, cursors as paths
    fmt_strs,      \* parse_php: process_function's set of format strings
    VAR_ARG_COUNT, \* parse_php: the module-level counter
    dequeued,      \* history: the cursors process_function has taken off its queue
    scan_result,   \* parse_php: what process_all_functions handed to its caller
    main_pc,          \* main: "idle", "load", "parse", "parsed", "scan" or "exited"
    single_file,      \* main: the single_file argument
    main_globals_only,\* main: the globals_only argument
    items,            \* main: the items of comp_args still to be processed
    src_file,         \* main: the source file being processed
    file_count,       \* main: the local counter of files written
    func_count,       \* main: the local counter of functions written
    main_outcome,     \* main: "running", what main returned, or the exception it raised
    exit_status,      \* __main__: <<>> while running, then the process's exit status
    report,           \* the content of the file named by output_file
    tree,             \* what the AST provider makes of each source file
    dict_order,       \* the order in which a dictionary yields the source files
    runs,             \* history: the arguments of each run and the report's length at its start
    parsed,           \* history: the files index.parse was called on in this run
    held,             \* the files whose TranslationUnit object has not been disposed of
    workers           \* threads: the state of each thread's call of process_function

load_vars == <<data_file, fd, ret, load_pc, load_result>>

scan_vars == <<tu, file_filter, globals_only, scan_pc, child_idx, res,
               to_process, fmt_strs, VAR_ARG_COUNT, dequeued, scan_result>>

main_vars == <<main_pc, single_file, main_globals_only, items, src_file,
               file_count, func_count, main_outcome, exit_status, report,
               tree, dict_order, runs, parsed, held>>

worker_vars == <<workers>>

vars == <<load_vars, scan_vars, main_vars, worker_vars>>

\* Python's None.
None == "None"
\* Python's None where the other values are sequences of characters.
NoneSeq == <<"None">>

-----------------------------------------------------------------------------
(* Text helpers *)

SP == " "
NL == "\n"
TAB == "\t"

\* str.endswith
EndsWith(s, suffix) ==
    /\ Len(s) >= Len(suffix)
    /\ SubSeq(s, Len(s) - Len(suffix) + 1, Len(s)) = suffix

\* str.split(sep) for a one-character separator: every occurrence of sep
\* ends a piece; empty pieces are kept.
RECURSIVE Split(_, _)
Split(s, sep) ==
    IF \A i \in 1..Len(s) : s[i] # sep
    THEN <<s>>
    ELSE LET i == CHOOSE k \in 1..Len(s) :
                      s[k] = sep /\ \A j \in 1..(k - 1) : s[j] # sep
         IN  <<SubSeq(s, 1, i - 1)>> \o Split(SubSeq(s, i + 1, Len(s)), sep)

\* " ".join(words)
RECURSIVE Join(_, _)
Join(words, sep) ==
    IF words = <<>> THEN <<>>
    ELSE IF Len(words) = 1 THEN words[1]
    ELSE words[1] \o <<sep>> \o Join(Tail(words), sep)

\* The first line of a text as file iteration yields it: up to and including
\* the first newline, or the whole rest when no newline is left.
FirstLine(text) ==
    IF \E i \in 1..Len(text) : text[i] = NL
    THEN LET i == CHOOSE k \in 1..Len(text) :
                      text[k] = NL /\ \A j \in 1..(k - 1) : text[j] # NL
         IN  SubSeq(text, 1, i)
    ELSE text

RestAfter(text, line) == SubSeq(text, Len(line) + 1, Len(text))

\* All the lines of a text, as iterating over the file yields them.
RECURSIVE FileLines(_)
FileLines(text) ==
    IF text = <<>> THEN <<>>
    ELSE <<FirstLine(text)>> \o FileLines(RestAfter(text, FirstLine(text)))

-----------------------------------------------------------------------------
(* ccargparse.py *)

\* The tokens the modelled logs are written with.
T_a   == <<"a", ".", "c">>
T_b   == <<"b", ".", "c", "p", "p">>
T_g   == <<"-", "g">>
T_W   == <<"-", "W">>
T_c   == <<"-", "c">>
T_o   == <<"-", "o">>
T_x   == <<"x">>
T_m   == <<"m", ".", "c">>
T_emit_ast     == <<"-", "e", "m", "i", "t", "-", "a", "s", "t">>
T_fsyntax_only == <<"-", "f", "s", "y", "n", "t", "a", "x", "-", "o", "n", "l", "y">>
Suffix_c   == <<".", "c">>
Suffix_cpp == <<".", "c", "p", "p">>

\* The working directory and the files that exist in it; m.c is not one.
Cwd == <<"/", "w">>
Disk == {Cwd \o <<"/">> \o T_a, Cwd \o <<"/">> \o T_b}

\* os.path.abspath for the paths of the modelled logs, none of which has a
\* "." or ".." component to normalise away.
abspath(path) ==
    IF path # <<>> /\ path[1] = "/" THEN path ELSE Cwd \o <<"/">> \o path

\* os.path.exists
exists(path) == path \in Disk

\* One iteration of the loop of __process_data_line over the token arg; st
\* holds the loop's locals skip_next, source_files and args.
ClassifyArg(st, arg) ==
    IF st.skip_next
    THEN [st EXCEPT !.skip_next = FALSE]
    ELSE IF EndsWith(arg, Suffix_c) \/ EndsWith(arg, Suffix_cpp)
    THEN IF ~exists(abspath(arg))
         THEN st
         ELSE [st EXCEPT !.source_files = @ \cup {arg}]
    ELSE IF arg = T_c \/ arg = T_emit_ast \/ arg = T_fsyntax_only
    THEN st
    ELSE IF arg = T_o
    THEN [st EXCEPT !.skip_next = TRUE]
    ELSE [st EXCEPT !.args = @ \cup {arg}]

RECURSIVE ScanArgs(_, _)
ScanArgs(st, toks) ==
    IF toks = <<>> THEN st
    ELSE ScanArgs(ClassifyArg(st, Head(toks)), Tail(toks))

\* __process_data_line with skip_next initialised to True.
process_data_line_skip_first(line) ==
    LET st == ScanArgs([skip_next |-> TRUE, source_files |-> {}, args |-> {}],
                       Split(line, SP))
    IN  {<<f_name, st.args>> : f_name \in st.source_files}

\* __process_data_line: the (source file, argument set) pairs of one line.
\* The code builds the list by iterating over a set, so its order is free;
\* the pairs are returned as a set and update_results is tried in all orders.
process_data_line(line) ==
    LET st == ScanArgs([skip_next |-> FALSE, source_files |-> {}, args |-> {}],
                       Split(line, SP))
    IN  {<<f_name, st.args>> : f_name \in st.source_files}

\* Every order in which a set of pairs can be listed.
Orders(S) ==
    {o \in [1..Cardinality(S) -> S] : \A i, j \in 1..Cardinality(S) :
                                          i # j => o[i] # o[j]}

\* d[key] = val
DictSet(d, key, val) ==
    [k \in DOMAIN d \cup {key} |-> IF k = key THEN val ELSE d[k]]

\* update_results with the conflict branch lost: a differing argument set
\* silently replaces the stored one.
RECURSIVE update_results_overwrite(_, _)
update_results_overwrite(results, info) ==
    IF info = <<>> THEN [res |-> results, raised |-> FALSE]
    ELSE update_results_overwrite(DictSet(results, Head(info)[1], Head(info)[2]),
                                  Tail(info))

\* __update_results(res, info): the dictionary after inserting the pairs of
\* info in order, and whether CompileArgsError was raised on the way (the
\* pairs before the conflicting one are already inserted by then).
RECURSIVE update_results(_, _)
update_results(results, info) ==
    IF info = <<>> THEN [res |-> results, raised |-> FALSE]
    ELSE LET source_file == Head(info)[1]
             args == Head(info)[2]
         IN  IF source_file \in DOMAIN results
             THEN IF results[source_file] = args
                  THEN update_results(results, Tail(info))
                  ELSE [res |-> results, raised |-> TRUE]
             ELSE update_results(DictSet(results, source_file, args), Tail(info))

EmptyDict == [k \in {} |-> {}]

\* No thread is running.
NoWorkers == workers = <<>>

\* main is not running.
MainIdle ==
    /\ main_pc = "idle"
    /\ single_file = NoneSeq
    /\ main_globals_only = FALSE
    /\ items = <<>>
    /\ src_file = NoneSeq
    /\ file_count = 0
    /\ func_count = 0
    /\ main_outcome = "running"
    /\ exit_status = <<>>
    /\ report = <<>>
    /\ tree = EmptyDict
    /\ dict_order = <<>>
    /\ runs = <<>>
    /\ parsed = <<>>
    /\ held = {}

\* open(data_file) succeeds.
Open ==
    /\ load_pc = "open"
    /\ fd' = data_file
    /\ load_pc' = "reading"
    /\ UNCHANGED <<data_file, ret, load_result>>
    /\ UNCHANGED scan_vars
    /\ UNCHANGED <<main_vars, worker_vars>>

\* open(data_file) fails: the exception is logged and raised again.
OpenError ==
    /\ load_pc = "open"
    /\ load_pc' = "IOError"
    /\ UNCHANGED <<data_file, fd, ret, load_result>>
    /\ UNCHANGED scan_vars
    /\ UNCHANGED <<main_vars, worker_vars>>

\* One iteration of the list comprehension of load_project_data:
\* __update_results(ret, __process_data_line(line)) for the next line.
ReadLine ==
    /\ load_pc = "reading"
    /\ fd # <<>>
    /\ LET line == FirstLine(fd)
       IN  /\ \E info \in Orders(process_data_line(line)) :
                 LET r == update_results(ret, info)
                 IN  /\ ret' = r.res
                     /\ load_pc' = IF r.raised THEN "CompileArgsError"
                                   ELSE "reading"
           /\ fd' = RestAfter(fd, line)
    /\ UNCHANGED <<data_file, load_result>>
    /\ UNCHANGED scan_vars
    /\ UNCHANGED <<main_vars, worker_vars>>

\* The file is exhausted: return ret.
Return ==
    /\ load_pc = "reading"
    /\ fd = <<>>
    /\ load_pc' = "returned"
    /\ load_result' = ret
    /\ UNCHANGED <<data_file, fd, ret>>
    /\ UNCHANGED scan_vars
    /\ UNCHANGED <<main_vars, worker_vars>>

\* The lines of the modelled logs, without their line break.
LogLines ==
    { Join(l, SP) : l \in
        { <<T_g, T_W, T_a>>, <<T_a, T_g, T_W>>, <<T_a, T_W, T_g>>,
          <<T_g, T_a, T_W>>, <<T_a, T_g>>, <<T_g, T_a>>,
          <<T_c, T_a, T_o, T_x>>, <<T_o, T_b, T_a, T_g>>,
          <<T_a, T_g, T_o>>, <<T_a, T_b, T_g>>, <<T_b, T_g, T_c>>,
          <<T_b, T_W>>, <<T_m, T_a, T_g>>, <<T_a, T_g, T_m>> } }

MaxLines == 3

\* The text of a log: each line ends with a line break, except that the
\* last line may lack it.
LogText(ls, final_newline) ==
    IF ls = <<>> THEN <<>>
    ELSE Join(ls, NL) \o (IF final_newline THEN <<NL>> ELSE <<>>)

Logs ==
    { LogText(ls, nl) : ls \in UNION {[1..n -> LogLines] : n \in 0..MaxLines},
                        nl \in BOOLEAN }

\* No scan is running.
ScanIdle ==
    /\ tu = <<>>
    /\ file_filter = None
    /\ globals_only = FALSE
    /\ scan_pc = "idle"
    /\ child_idx = 1
    /\ res = EmptyDict
    /\ to_process = <<>>
    /\ fmt_strs = {}
    /\ VAR_ARG_COUNT = 0
    /\ dequeued = <<>>
    /\ scan_result = None

InitLoad ==
    /\ data_file \in Logs
    /\ fd = <<>>
    /\ ret = EmptyDict
    /\ load_pc = "open"
    /\ load_result = None
    /\ ScanIdle
    /\ MainIdle
    /\ NoWorkers

NextLoad == Open \/ OpenError \/ ReadLine \/ Return

SpecLoad == InitLoad /\ [][NextLoad]_vars

-----------------------------------------------------------------------------
(* parse_php.py *)

ZEND_FUNC == "zend_parse_parameters"

\* The prefix process_all_functions requires of a name under globals_only.
ZifPrefix == <<"z", "i", "f", "_">>

\* A cursor of the AST provider: kind, spelling (characters), displayname,
\* the file of its location, the spellings of the tokens of its extent, and
\* its children in syntactic order.
Cursor(kind, spelling, displayname, file, tokens, children) ==
    [kind |-> kind, spelling |-> spelling, displayname |-> displayname,
     file |-> file, tokens |-> tokens, children |-> children]

\* str.startswith
StartsWith(str, prefix) ==
    Len(str) >= Len(prefix) /\ SubSeq(str, 1, Len(prefix)) = prefix

\* The slice str[1:-1].
Slice1Minus1(str) == SubSeq(str, 2, Len(str) - 1)

\* list(node.get_children())[idx] exists (idx counts from 0).
HasChild(node, idx) == idx < Len(node.children)

\* get_child, where HasChild holds; otherwise the code raises IndexError.
get_child(node, idx) == node.children[idx + 1]

\* The outcome of a call: the exception it raised (None when it returned)
\* and the value it returned.
Raised(exc) == [exc |-> exc, val |-> <<>>]
Returned(val) == [exc |-> None, val |-> val]

\* extract_fmt_str without the slice: the quotation marks stay on.
extract_fmt_str_keep_quotes(func_call_nodes) ==
    IF Len(func_call_nodes) < 3 \/ ~HasChild(func_call_nodes[3], 0)
    THEN Raised("IndexError")
    ELSE LET unex_expr == get_child(func_call_nodes[3], 0)
         IN  IF ~HasChild(unex_expr, 0) THEN Raised("IndexError")
             ELSE LET tkn_container == get_child(unex_expr, 0)
                  IN  IF tkn_container.kind # "STRING_LITERAL"
                      THEN Raised("VariableArgumentError")
                      ELSE IF tkn_container.tokens = <<>>
                      THEN Raised("IndexError")
                      ELSE IF tkn_container.tokens[1] = NoneSeq
                      THEN Returned(<<>>)
                      ELSE Returned(tkn_container.tokens[1])

\* extract_fmt_str with one get_child only: the kind of the first child of
\* the call's third child decides.
extract_fmt_str_one_level(func_call_nodes) ==
    IF Len(func_call_nodes) < 3 \/ ~HasChild(func_call_nodes[3], 0)
    THEN Raised("IndexError")
    ELSE LET tkn_container == get_child(func_call_nodes[3], 0)
         IN  IF tkn_container.kind # "STRING_LITERAL"
             THEN Raised("VariableArgumentError")
             ELSE IF tkn_container.tokens = <<>>
             THEN Raised("IndexError")
             ELSE IF tkn_container.tokens[1] = NoneSeq
             THEN Returned(<<>>)
             ELSE Returned(Slice1Minus1(tkn_container.tokens[1]))

\* extract_fmt_str(func_call_nodes), func_call_nodes being the children of
\* the call: the format string, VariableArgumentError, or the IndexError of
\* an index past the end of a list of children.
extract_fmt_str(func_call_nodes) ==
    IF Len(func_call_nodes) < 3 \/ ~HasChild(func_call_nodes[3], 0)
    THEN Raised("IndexError")
    ELSE LET unex_expr == get_child(func_call_nodes[3], 0)
         IN  IF ~HasChild(unex_expr, 0) THEN Raised("IndexError")
             ELSE LET tkn_container == get_child(unex_expr, 0)
                  IN  IF tkn_container.kind # "STRING_LITERAL"
                      THEN Raised("VariableArgumentError")
                      ELSE IF tkn_container.tokens = <<>>
                      THEN Raised("IndexError")
                      ELSE IF tkn_container.tokens[1] = NoneSeq
                      THEN Returned(<<>>)
                      ELSE Returned(Slice1Minus1(tkn_container.tokens[1]))

\* The cursor at a path of child positions below root.
RECURSIVE NodeAt(_, _)
NodeAt(root, path) ==
    IF path = <<>> THEN root
    ELSE NodeAt(root.children[Head(path)], Tail(path))

\* n.get_children(), as paths.
get_children(root, path) ==
    [i \in 1..Len(NodeAt(root, path).children) |-> path \o <<i>>]

\* The body of the while loop of process_function for a CALL_EXPR n, up to
\* its "continue": the new fmt_strs and VAR_ARG_COUNT, the exception that
\* left the loop (None when none did), and whether the loop continued
\* without putting the children of n on the queue.
Outcome(fmts, count, exc, continued) ==
    [fmt_strs |-> fmts, count |-> count, exc |-> exc, continued |-> continued]

\* VisitCall with the increment of VAR_ARG_COUNT lost.
VisitCall_no_count(n, fmts, count) ==
    LET unexposed_exprs == n.children
    IN  IF unexposed_exprs = <<>> \/ ~HasChild(unexposed_exprs[1], 0)
        THEN Outcome(fmts, count, "IndexError", FALSE)
        ELSE IF get_child(unexposed_exprs[1], 0).displayname # ZEND_FUNC
        THEN Outcome(fmts, count, None, FALSE)
        ELSE LET r == extract_fmt_str(unexposed_exprs)
             IN  IF r.exc = "VariableArgumentError"
                 THEN Outcome(fmts, count, None, TRUE)
                 ELSE IF r.exc # None
                 THEN Outcome(fmts, count, r.exc, FALSE)
                 ELSE IF Len(r.val) # 0
                 THEN Outcome(fmts \cup {r.val}, count, None, TRUE)
                 ELSE Outcome(fmts, count, None, TRUE)

\* VisitCall with the test len(fmt_str) lost: the empty string is added.
VisitCall_keep_empty(n, fmts, count) ==
    LET unexposed_exprs == n.children
    IN  IF unexposed_exprs = <<>> \/ ~HasChild(unexposed_exprs[1], 0)
        THEN Outcome(fmts, count, "IndexError", FALSE)
        ELSE IF get_child(unexposed_exprs[1], 0).displayname # ZEND_FUNC
        THEN Outcome(fmts, count, None, FALSE)
        ELSE LET r == extract_fmt_str(unexposed_exprs)
             IN  IF r.exc = "VariableArgumentError"
                 THEN Outcome(fmts, count + 1, None, TRUE)
                 ELSE IF r.exc # None
                 THEN Outcome(fmts, count, r.exc, FALSE)
                 ELSE Outcome(fmts \cup {r.val}, count, None, TRUE)

\* VisitCall without the "continue" after a sentinel call: the children of
\* the call are put on the queue.
VisitCall_descend(n, fmts, count) ==
    LET unexposed_exprs == n.children
    IN  IF unexposed_exprs = <<>> \/ ~HasChild(unexposed_exprs[1], 0)
        THEN Outcome(fmts, count, "IndexError", FALSE)
        ELSE IF get_child(unexposed_exprs[1], 0).displayname # ZEND_FUNC
        THEN Outcome(fmts, count, None, FALSE)
        ELSE LET r == extract_fmt_str(unexposed_exprs)
             IN  IF r.exc = "VariableArgumentError"
                 THEN Outcome(fmts, count + 1, None, FALSE)
                 ELSE IF r.exc # None
                 THEN Outcome(fmts, count, r.exc, FALSE)
                 ELSE IF Len(r.val) # 0
                 THEN Outcome(fmts \cup {r.val}, count, None, FALSE)
                 ELSE Outcome(fmts, count, None, FALSE)

VisitCall(n, fmts, count) ==
    LET unexposed_exprs == n.children
    IN  IF unexposed_exprs = <<>> \/ ~HasChild(unexposed_exprs[1], 0)
        THEN Outcome(fmts, count, "IndexError", FALSE)
        ELSE IF get_child(unexposed_exprs[1], 0).displayname # ZEND_FUNC
        THEN Outcome(fmts, count, None, FALSE)
        ELSE LET r == extract_fmt_str(unexposed_exprs)
             IN  IF r.exc = "VariableArgumentError"
                 THEN Outcome(fmts, count + 1, None, TRUE)
                 ELSE IF r.exc # None
                 THEN Outcome(fmts, count, r.exc, FALSE)
                 ELSE IF Len(r.val) # 0
                 THEN Outcome(fmts \cup {r.val}, count, None, TRUE)
                 ELSE Outcome(fmts, count, None, TRUE)

\* A value process_function returns: None, or a list.
ReturnsNone == [is_none |-> TRUE, list |-> <<>>]
ReturnsList(list) == [is_none |-> FALSE, list |-> list]

\* ReturnValues that keeps one format string of several.
ReturnValues_first_only(fmts) ==
    IF fmts # {} THEN {ReturnsList(<<CHOOSE f \in fmts : TRUE>>)}
    ELSE {ReturnsNone}

\* ReturnValues without the test len(fmt_strs): the empty list is returned.
ReturnValues_empty_list(fmts) == {ReturnsList(l) : l \in Orders(fmts)}

\* What process_function can return for the set fmts: list(fmt_strs), in
\* any order of the set's iteration, or None for the empty set.
ReturnValues(fmts) ==
    IF fmts # {} THEN {ReturnsList(l) : l \in Orders(fmts)}
    ELSE {ReturnsNone}

\* Retained without the comparison of the location's file.
Retained_any_file(c, filter, exported) ==
    /\ c.kind = "FUNCTION_DECL"
    /\ ~(exported /\ ~StartsWith(c.spelling, ZifPrefix))

\* The tests of process_all_functions that let the child c of the root be
\* handed to process_function.
Retained(c, filter, exported) ==
    /\ c.kind = "FUNCTION_DECL"
    /\ ~(filter # None /\ filter # "" /\ c.file # filter)
    /\ ~(exported /\ ~StartsWith(c.spelling, ZifPrefix))

\* process_all_functions is entered.
BeginScan ==
    /\ scan_pc = "idle"
    /\ scan_pc' = "loop"
    /\ child_idx' = 1
    /\ res' = EmptyDict
    /\ UNCHANGED <<tu, file_filter, globals_only, to_process, fmt_strs,
                   VAR_ARG_COUNT, dequeued, scan_result>>
    /\ UNCHANGED load_vars
    /\ UNCHANGED <<main_vars, worker_vars>>

\* The next child of the root is not a function, or a filter excludes it.
SkipChild ==
    /\ scan_pc = "loop"
    /\ child_idx <= Len(tu)
    /\ ~Retained(tu[child_idx], file_filter, globals_only)
    /\ child_idx' = child_idx + 1
    /\ UNCHANGED <<tu, file_filter, globals_only, scan_pc, res, to_process,
                   fmt_strs, VAR_ARG_COUNT, dequeued, scan_result>>
    /\ UNCHANGED load_vars
    /\ UNCHANGED <<main_vars, worker_vars>>

\* The next child of the root is handed to process_function, which puts it
\* on its queue.
BeginFunction ==
    /\ scan_pc = "loop"
    /\ child_idx <= Len(tu)
    /\ Retained(tu[child_idx], file_filter, globals_only)
    /\ scan_pc' = "bfs"
    /\ fmt_strs' = {}
    /\ to_process' = << <<>> >>
    /\ dequeued' = <<>>
    /\ UNCHANGED <<tu, file_filter, globals_only, child_idx, res,
                   VAR_ARG_COUNT, scan_result>>
    /\ UNCHANGED load_vars
    /\ UNCHANGED <<main_vars, worker_vars>>

\* One iteration of the while loop of process_function.
Visit ==
    /\ scan_pc = "bfs"
    /\ to_process # <<>>
    /\ LET path == Head(to_process)
           n == NodeAt(tu[child_idx], path)
           o == IF n.kind = "CALL_EXPR"
                THEN VisitCall(n, fmt_strs, VAR_ARG_COUNT)
                ELSE Outcome(fmt_strs, VAR_ARG_COUNT, None, FALSE)
       IN  /\ dequeued' = Append(dequeued, path)
           /\ fmt_strs' = o.fmt_strs
           /\ VAR_ARG_COUNT' = o.count
           /\ scan_pc' = IF o.exc # None THEN o.exc ELSE "bfs"
           /\ to_process' =
                 IF o.exc # None \/ o.continued
                 THEN Tail(to_process)
                 ELSE Tail(to_process) \o get_children(tu[child_idx], path)
    /\ UNCHANGED <<tu, file_filter, globals_only, child_idx, res, scan_result>>
    /\ UNCHANGED load_vars
    /\ UNCHANGED <<main_vars, worker_vars>>

\* The queue is empty: process_function returns, and process_all_functions
\* records the list under the function's name unless it is None.
EndFunction ==
    /\ scan_pc = "bfs"
    /\ to_process = <<>>
    /\ \E returned \in ReturnValues(fmt_strs) :
          res' = IF returned.is_none THEN res
                 ELSE DictSet(res, tu[child_idx].spelling, returned.list)
    /\ scan_pc' = "loop"
    /\ child_idx' = child_idx + 1
    /\ UNCHANGED <<tu, file_filter, globals_only, to_process, fmt_strs,
                   VAR_ARG_COUNT, dequeued, scan_result>>
    /\ UNCHANGED load_vars
    /\ UNCHANGED <<main_vars, worker_vars>>

\* The children of the root are exhausted: return res.
ReturnScan ==
    /\ scan_pc = "loop"
    /\ child_idx > Len(tu)
    /\ scan_pc' = "returned"
    /\ scan_result' = res
    /\ UNCHANGED <<tu, file_filter, globals_only, child_idx, res, to_process,
                   fmt_strs, VAR_ARG_COUNT, dequeued>>
    /\ UNCHANGED load_vars
    /\ UNCHANGED <<main_vars, worker_vars>>

-----------------------------------------------------------------------------
(* The translation units the scan is run on *)

MainFile == "ext.c"
HeaderFile == "ext.h"

\* Function names.
N_zif_f == <<"z", "i", "f", "_", "f">>
N_zif_g == <<"z", "i", "f", "_", "g">>
N_zif_m == <<"z", "i", "f", "_", "m">>
N_zif_e == <<"z", "i", "f", "_", "e">>
N_zif_n == <<"z", "i", "f", "_", "n">>
N_zif_v == <<"z", "i", "f", "_", "v">>
N_zif   == <<"z", "i", "f">>
N_h     == <<"h">>

\* Format strings and the token a string literal is spelled with.
F_zs == <<"z", "s">>
F_ss == <<"s", "s">>
F_empty == <<>>
FmtTexts == {F_zs, F_ss, F_empty}
Quote(text) == <<"\"">> \o text \o <<"\"">>

\* Cursors below a function: they have no spelling, and their file is the
\* function's.
Inner(kind, displayname, children) ==
    Cursor(kind, NoneSeq, displayname, MainFile, <<>>, children)
StringLiteral(tokens) ==
    Cursor("STRING_LITERAL", NoneSeq, "", MainFile, tokens, <<>>)
Unexposed(child) == Inner("UNEXPOSED_EXPR", "", <<child>>)
DeclRef(name) == Inner("DECL_REF_EXPR", name, <<>>)
IntLiteral == Inner("INTEGER_LITERAL", "", <<>>)

\* callee(args): the callee decays to a pointer under an UNEXPOSED_EXPR.
Call(callee, args) ==
    Inner("CALL_EXPR", callee, <<Unexposed(DeclRef(callee))>> \o args)

\* An argument as the provider hands it over for a const char * parameter:
\* the expression under two implicit conversions.
Converted(expr) == Unexposed(Unexposed(expr))
LitArg(text) == Converted(StringLiteral(<<Quote(text)>>))
\* The empty literal, for which the patched binding yields the one token None.
EmptyLitArg == Converted(StringLiteral(<<NoneSeq>>))
VarArg == Converted(DeclRef("fmt"))

\* zend_parse_parameters(num_args, fmt, ...)
ZendCall(fmt, more) == Call(ZEND_FUNC, <<IntLiteral, fmt>> \o more)

\* The statements function bodies are written with.
Stmts ==
    { ZendCall(LitArg(F_zs), <<>>),
      ZendCall(LitArg(F_ss), <<>>),
      ZendCall(LitArg(F_empty), <<>>),
      ZendCall(EmptyLitArg, <<>>),
      ZendCall(VarArg, <<>>),
      \* a sentinel call deeper in the body
      Inner("IF_STMT", "", <<IntLiteral,
            Inner("COMPOUND_STMT", "", <<ZendCall(LitArg(F_zs), <<>>)>>)>>),
      \* a sentinel call among the arguments of another call
      Call("foo", <<Unexposed(ZendCall(LitArg(F_ss), <<>>))>>),
      \* a sentinel call among the arguments of a sentinel call
      ZendCall(LitArg(F_zs), <<Unexposed(ZendCall(VarArg, <<>>))>>),
      \* a sentinel call with no format-string argument
      Call(ZEND_FUNC, <<IntLiteral>>),
      \* a literal under one implicit conversion only
      ZendCall(Unexposed(StringLiteral(<<Quote(F_zs)>>)), <<>>),
      Inner("RETURN_STMT", "", <<IntLiteral>>) }

\* A function definition: its body is a COMPOUND_STMT of statements.
FunctionDef(name, file, stmts) ==
    Cursor("FUNCTION_DECL", name, "", file, <<>>,
           <<Inner("COMPOUND_STMT", "", stmts)>>)

\* A declaration without a body.
Prototype(name, file) == Cursor("FUNCTION_DECL", name, "", file, <<>>, <<>>)

MaxStmts == 2
MaxDecls == 2

Bodies == UNION {[1..n -> Stmts] : n \in 0..MaxStmts}

\* Translation units of one function, with every body.
OneFunctionUnits == { <<FunctionDef(N_zif_f, MainFile, b)>> : b \in Bodies }

\* The children of the root that units of several declarations are made of;
\* no two definitions share a name.
TopLevel ==
    { FunctionDef(N_zif_f, MainFile, <<ZendCall(LitArg(F_zs), <<>>)>>),
      Prototype(N_zif_f, MainFile),
      FunctionDef(N_h, MainFile, <<ZendCall(LitArg(F_ss), <<>>)>>),
      FunctionDef(N_zif, MainFile, <<ZendCall(LitArg(F_zs), <<>>)>>),
      FunctionDef(N_zif_g, HeaderFile, <<ZendCall(LitArg(F_zs), <<>>)>>),
      FunctionDef(N_zif_m, MainFile,
                  <<ZendCall(LitArg(F_zs), <<>>), ZendCall(LitArg(F_ss), <<>>)>>),
      FunctionDef(N_zif_e, MainFile, <<ZendCall(EmptyLitArg, <<>>)>>),
      \* not a function
      Cursor("VAR_DECL", N_zif_v, "", MainFile, <<>>,
             <<ZendCall(LitArg(F_zs), <<>>)>>),
      \* a function that is not a direct child of the root
      Cursor("NAMESPACE", N_zif_n, "", MainFile, <<>>,
             <<FunctionDef(N_zif_n, MainFile, <<ZendCall(LitArg(F_zs), <<>>)>>)>>) }

Units == OneFunctionUnits \cup UNION {[1..n -> TopLevel] : n \in 0..MaxDecls}

\* No load is running.
LoadIdle ==
    /\ data_file = <<>>
    /\ fd = <<>>
    /\ ret = EmptyDict
    /\ load_pc = "idle"
    /\ load_result = None

InitScan ==
    /\ LoadIdle
    /\ tu \in Units
    /\ file_filter \in {None, MainFile}
    /\ globals_only \in BOOLEAN
    /\ scan_pc = "idle"
    /\ child_idx = 1
    /\ res = EmptyDict
    /\ to_process = <<>>
    /\ fmt_strs = {}
    /\ VAR_ARG_COUNT = 0
    /\ dequeued = <<>>
    /\ scan_result = None
    /\ MainIdle
    /\ NoWorkers

NextScan ==
    BeginScan \/ SkipChild \/ BeginFunction \/ Visit \/ EndFunction \/ ReturnScan

SpecScan == InitScan /\ [][NextScan]_vars

-----------------------------------------------------------------------------
(* parse_php.py: process_function called from several threads.  Each       *)
(* thread has its own queue and set; VAR_ARG_COUNT is the module's global, *)
(* and "VAR_ARG_COUNT += 1" is the bytecodes LOAD_GLOBAL, INPLACE_ADD and  *)
(* STORE_GLOBAL, between which the interpreter may switch threads.         *)

WorkerIds == {1, 2}

\* The statements of the functions the threads scan.
WorkerStmts == {ZendCall(VarArg, <<>>), ZendCall(LitArg(F_zs), <<>>)}

MaxWorkerStmts == 2

WorkerFuncs ==
    { FunctionDef(N_zif_f, MainFile, b) :
        b \in UNION {[1..n -> WorkerStmts] : n \in 1..MaxWorkerStmts} }

\* A thread that has entered process_function(func_cursor): the cursor is on
\* its queue.  nonliteral is history: the sentinel calls passing a variable
\* that the thread has processed.
Worker(func_cursor) ==
    [func |-> func_cursor, pc |-> "bfs", to_process |-> << <<>> >>,
     fmt_strs |-> {}, loaded |-> 0, nonliteral |-> 0]

\* One iteration of the while loop of process_function in thread w, up to
\* the increment of VAR_ARG_COUNT when the call passes a variable.
WorkerVisit(w) ==
    /\ workers[w].pc = "bfs"
    /\ workers[w].to_process # <<>>
    /\ LET me == workers[w]
           path == Head(me.to_process)
           n == NodeAt(me.func, path)
           o == IF n.kind = "CALL_EXPR"
                THEN VisitCall(n, me.fmt_strs, VAR_ARG_COUNT)
                ELSE Outcome(me.fmt_strs, VAR_ARG_COUNT, None, FALSE)
           increments == o.count # VAR_ARG_COUNT
       IN  workers' = [workers EXCEPT ![w] =
              [me EXCEPT
                 !.fmt_strs = o.fmt_strs,
                 !.nonliteral = IF increments THEN @ + 1 ELSE @,
                 !.pc = IF o.exc # None THEN o.exc
                        ELSE IF increments THEN "LOAD_GLOBAL" ELSE "bfs",
                 !.to_process =
                    IF o.exc # None \/ o.continued
                    THEN Tail(me.to_process)
                    ELSE Tail(me.to_process) \o get_children(me.func, path)]]
    /\ UNCHANGED <<load_vars, scan_vars, main_vars>>

\* LOAD_GLOBAL VAR_ARG_COUNT: the thread reads the counter.
WorkerLoad(w) ==
    /\ workers[w].pc = "LOAD_GLOBAL"
    /\ workers' = [workers EXCEPT ![w].loaded = VAR_ARG_COUNT,
                                  ![w].pc = "STORE_GLOBAL"]
    /\ UNCHANGED <<load_vars, scan_vars, main_vars>>

\* STORE_GLOBAL VAR_ARG_COUNT: the thread writes what it read, plus 1.
WorkerStore(w) ==
    /\ workers[w].pc = "STORE_GLOBAL"
    /\ VAR_ARG_COUNT' = workers[w].loaded + 1
    /\ workers' = [workers EXCEPT ![w].pc = "bfs"]
    /\ UNCHANGED <<tu, file_filter, globals_only, scan_pc, child_idx, res,
                   to_process, fmt_strs, dequeued, scan_result>>
    /\ UNCHANGED <<load_vars, main_vars>>

\* The queue of thread w is empty: its process_function returns.
WorkerReturn(w) ==
    /\ workers[w].pc = "bfs"
    /\ workers[w].to_process = <<>>
    /\ workers' = [workers EXCEPT ![w].pc = "returned"]
    /\ UNCHANGED <<load_vars, scan_vars, main_vars>>

InitWorkers ==
    /\ LoadIdle
    /\ ScanIdle
    /\ MainIdle
    /\ workers \in [WorkerIds -> {Worker(f) : f \in WorkerFuncs}]

NextWorkers ==
    \E w \in WorkerIds :
        WorkerVisit(w) \/ WorkerLoad(w) \/ WorkerStore(w) \/ WorkerReturn(w)

SpecWorkers == InitWorkers /\ [][NextWorkers]_vars

-----------------------------------------------------------------------------
(* parse_php.py: write_output, main and __main__ *)

\* The source files of the modelled builds as the provider names them in a
\* cursor's location: the path index.parse was given.
FileName(path) ==
    IF path = T_a THEN "a.c" ELSE IF path = T_b THEN "b.cpp" ELSE ""

\* FormatLine without the line break of its format.
FormatLine_no_break(func_name, fmts) == func_name \o <<SP>> \o Join(fmts, SP)

\* "%s %s\n" % (func_name, " ".join(fmt_strs))
FormatLine(func_name, fmts) == func_name \o <<SP>> \o Join(fmts, SP) \o <<NL>>

\* The lines write_output writes for the items of data, in the order the
\* dictionary yields them.
RECURSIVE FormatLines(_, _)
FormatLines(data, order) ==
    IF order = <<>> THEN <<>>
    ELSE FormatLine(Head(order), data[Head(order)])
             \o FormatLines(data, Tail(order))

\* write_output with the file opened in mode "wb": the content is lost.
write_output_truncate(content, src, data, order) ==
    <<"#", SP>> \o src \o <<NL>> \o FormatLines(data, order)

\* write_output(src_file, data, out_file): the content of out_file after the
\* call, content being its content before; the file is opened in mode "ab".
write_output(content, src, data, order) ==
    content \o <<"#", SP>> \o src \o <<NL>> \o FormatLines(data, order)

\* The test "if single_file" of main, lost.
Truthy_never(str) == FALSE

\* The truth value of an optional str: None and "" are false.
Truthy(str) == str # NoneSeq /\ str # <<>>

\* The test "if len(tu_data)" of main, lost.
HasData_always(tu_data) == TRUE

\* len(tu_data) as a truth value.
HasData(tu_data) == DOMAIN tu_data # {}

\* len with every dictionary counted as one function.
len_one(data) == 1

\* len(tu_data): the number of functions in the mapping.
len(data) == Cardinality(DOMAIN data)

\* The exit status with every value of main taken for success.
sys_exit_zero(outcome) == <<0>>

\* sys.exit(main(...)): the exit status of the process. None exits with 0,
\* the integer -1 with its low eight bits, an uncaught exception with 1.
sys_exit(outcome) ==
    IF outcome = "return None" THEN <<0>>
    ELSE IF outcome = "return -1" THEN <<(-1) % 256>>
    ELSE <<1>>

comp_args == load_result
tu_data == scan_result

\* main ends with outcome, and the process exits; its objects go with it.
Exit(outcome) ==
    /\ main_pc' = "exited"
    /\ main_outcome' = outcome
    /\ exit_status' = sys_exit(outcome)
    /\ runs' = [runs EXCEPT ![Len(runs)].outcome = outcome]
    /\ held' = {}

\* load_project_data raised: the exception leaves main.
LoadFailed ==
    /\ main_pc = "load"
    /\ load_pc \in {"CompileArgsError", "IOError"}
    /\ Exit(load_pc)
    /\ UNCHANGED <<single_file, main_globals_only, items, src_file, file_count,
                   func_count, report, tree, dict_order, parsed>>
    /\ UNCHANGED <<load_vars, scan_vars, worker_vars>>

\* Single-file mode with a file that is not in comp_args: return -1.
UnknownFile ==
    /\ main_pc = "load"
    /\ load_pc = "returned"
    /\ Truthy(single_file)
    /\ single_file \notin DOMAIN comp_args
    /\ Exit("return -1")
    /\ UNCHANGED <<single_file, main_globals_only, items, src_file, file_count,
                   func_count, report, tree, dict_order, parsed>>
    /\ UNCHANGED <<load_vars, scan_vars, worker_vars>>

\* Single-file mode: the one file and its arguments are processed.
BeginSingle ==
    /\ main_pc = "load"
    /\ load_pc = "returned"
    /\ Truthy(single_file)
    /\ single_file \in DOMAIN comp_args
    /\ items' = << <<single_file, comp_args[single_file]>> >>
    /\ main_pc' = "parse"
    /\ UNCHANGED <<single_file, main_globals_only, src_file, file_count,
                   func_count, main_outcome, exit_status, report, tree,
                   dict_order, runs, parsed, held>>
    /\ UNCHANGED <<load_vars, scan_vars, worker_vars>>

\* All-files mode: the loop over comp_args.items(), in the order the
\* dictionary yields them, which is the same in every run on the same log.
BeginAll ==
    /\ main_pc = "load"
    /\ load_pc = "returned"
    /\ ~Truthy(single_file)
    /\ items' = LET order == SelectSeq(dict_order, LAMBDA f : f \in DOMAIN comp_args)
                 IN  [i \in 1..Len(order) |-> <<order[i], comp_args[order[i]]>>]
    /\ main_pc' = "parse"
    /\ UNCHANGED <<single_file, main_globals_only, src_file, file_count,
                   func_count, main_outcome, exit_status, report, tree,
                   dict_order, runs, parsed, held>>
    /\ UNCHANGED <<load_vars, scan_vars, worker_vars>>

\* index.parse(src_file, args) returns a new TranslationUnit object; the
\* local tu of main still names the object of the file before.
ParseFile ==
    /\ main_pc = "parse"
    /\ items # <<>>
    /\ tree[Head(items)[1]].ok
    /\ src_file' = Head(items)[1]
    /\ parsed' = Append(parsed, Head(items)[1])
    /\ held' = held \cup {Head(items)[1]}
    /\ main_pc' = "parsed"
    /\ UNCHANGED <<single_file, main_globals_only, items, file_count,
                   func_count, main_outcome, exit_status, report, tree,
                   dict_order, runs>>
    /\ UNCHANGED <<load_vars, scan_vars, worker_vars>>

\* The new object is assigned to tu: the object tu named before has no
\* reference left, and its __del__ disposes of the translation unit.  Then
\* process_all_functions is called with src_file as the file filter.
ScanFile ==
    /\ main_pc = "parsed"
    /\ held' = {src_file}
    /\ tu' = tree[src_file].unit
    /\ file_filter' = FileName(src_file)
    /\ globals_only' = main_globals_only
    /\ scan_pc' = "idle"
    /\ main_pc' = "scan"
    /\ UNCHANGED <<child_idx, res, to_process, fmt_strs, VAR_ARG_COUNT,
                   dequeued, scan_result>>
    /\ UNCHANGED <<single_file, main_globals_only, items, src_file,
                   file_count, func_count, main_outcome, exit_status, report,
                   tree, dict_order, runs, parsed>>
    /\ UNCHANGED <<load_vars, worker_vars>>

\* index.parse raises TranslationUnitLoadError, which leaves main.
ParseError ==
    /\ main_pc = "parse"
    /\ items # <<>>
    /\ ~tree[Head(items)[1]].ok
    /\ src_file' = Head(items)[1]
    /\ parsed' = Append(parsed, Head(items)[1])
    /\ Exit("TranslationUnitLoadError")
    /\ UNCHANGED <<single_file, main_globals_only, items, file_count,
                   func_count, report, tree,
                   dict_order>>
    /\ UNCHANGED <<load_vars, scan_vars, worker_vars>>

\* process_all_functions raised: the exception leaves main.
ScanError ==
    /\ main_pc = "scan"
    /\ scan_pc \notin {"idle", "loop", "bfs", "returned"}
    /\ Exit(scan_pc)
    /\ UNCHANGED <<single_file, main_globals_only, items, src_file, file_count,
                   func_count, report, tree, dict_order, parsed>>
    /\ UNCHANGED <<load_vars, scan_vars, worker_vars>>

\* process_all_functions returned functions: the counters are advanced and
\* write_output appends the file's block.
RecordFile ==
    /\ main_pc = "scan"
    /\ scan_pc = "returned"
    /\ HasData(tu_data)
    /\ file_count' = file_count + 1
    /\ func_count' = func_count + len(tu_data)
    /\ \E order \in Orders(DOMAIN tu_data) :
          report' = write_output(report, src_file, tu_data, order)
    /\ items' = Tail(items)
    /\ main_pc' = "parse"
    /\ UNCHANGED <<single_file, main_globals_only, src_file, main_outcome,
                   exit_status, tree, dict_order, runs, parsed, held>>
    /\ UNCHANGED <<load_vars, scan_vars, worker_vars>>

\* process_all_functions returned no function: nothing is written.
SkipFile ==
    /\ main_pc = "scan"
    /\ scan_pc = "returned"
    /\ ~HasData(tu_data)
    /\ items' = Tail(items)
    /\ main_pc' = "parse"
    /\ UNCHANGED <<single_file, main_globals_only, src_file, file_count,
                   func_count, main_outcome, exit_status, report, tree,
                   dict_order, runs, parsed, held>>
    /\ UNCHANGED <<load_vars, scan_vars, worker_vars>>

\* Nothing is left to process: main logs its counters and returns None.
EndMain ==
    /\ main_pc = "parse"
    /\ items = <<>>
    /\ Exit("return None")
    /\ UNCHANGED <<single_file, main_globals_only, items, src_file, file_count,
                   func_count, report, tree, dict_order, parsed>>
    /\ UNCHANGED <<load_vars, scan_vars, worker_vars>>

\* The state of a process that has just called main, which has called
\* load_project_data: nothing is loaded, no scan has been called, the
\* module-level counter is 0.
Started(cc_log, single, exported) ==
    /\ data_file' = cc_log
    /\ fd' = <<>>
    /\ ret' = EmptyDict
    /\ load_pc' = "open"
    /\ load_result' = None
    /\ tu' = <<>>
    /\ file_filter' = None
    /\ globals_only' = FALSE
    /\ scan_pc' = "uncalled"
    /\ child_idx' = 1
    /\ res' = EmptyDict
    /\ to_process' = <<>>
    /\ fmt_strs' = {}
    /\ VAR_ARG_COUNT' = 0
    /\ dequeued' = <<>>
    /\ scan_result' = None
    /\ main_pc' = "load"
    /\ single_file' = single
    /\ main_globals_only' = exported
    /\ items' = <<>>
    /\ src_file' = NoneSeq
    /\ file_count' = 0
    /\ func_count' = 0
    /\ main_outcome' = "running"
    /\ exit_status' = <<>>
    /\ parsed' = <<>>
    /\ held' = {}

\* The translation units of the modelled source trees.
UnitOne(file) ==
    << FunctionDef(N_zif_f, file, <<ZendCall(LitArg(F_zs), <<>>)>>) >>
UnitTwo(file) ==
    << FunctionDef(N_zif_f, file, <<ZendCall(LitArg(F_zs), <<>>)>>),
       FunctionDef(N_zif_g, HeaderFile, <<ZendCall(LitArg(F_ss), <<>>)>>),
       FunctionDef(N_h, file,
                   <<ZendCall(LitArg(F_zs), <<>>), ZendCall(LitArg(F_ss), <<>>)>>) >>
\* sentinel calls, none of which gives a format string
UnitNone(file) ==
    << FunctionDef(N_zif_e, file,
                   <<ZendCall(VarArg, <<>>), ZendCall(EmptyLitArg, <<>>)>>) >>
\* a sentinel call without a format-string argument
UnitShort(file) ==
    << FunctionDef(N_zif_f, file, <<Call(ZEND_FUNC, <<IntLiteral>>)>>) >>

\* What index.parse makes of a file: a translation unit, or
\* TranslationUnitLoadError.
Parsed(unit) == [ok |-> TRUE, unit |-> unit]
Unparsable == [ok |-> FALSE, unit |-> <<>>]

SourceTree(a, b) == [f \in {T_a, T_b} |-> IF f = T_a THEN a ELSE b]

Trees ==
    { SourceTree(Parsed(UnitTwo("a.c")), Parsed(UnitOne("b.cpp"))),
      SourceTree(Parsed(UnitTwo("a.c")), Parsed(UnitNone("b.cpp"))),
      SourceTree(Parsed(UnitNone("a.c")), Parsed(UnitNone("b.cpp"))),
      SourceTree(Unparsable, Parsed(UnitOne("b.cpp"))),
      SourceTree(Parsed(UnitShort("a.c")), Parsed(UnitOne("b.cpp"))),
      SourceTree(Parsed(UnitOne("a.c")), Unparsable) }

\* The logs main is run on: one file, two files, a conflict, no line.
MainLogs ==
    { LogText(<<Join(<<T_a, T_g>>, SP)>>, TRUE),
      LogText(<<Join(<<T_a, T_g>>, SP), Join(<<T_b, T_W>>, SP)>>, TRUE),
      LogText(<<Join(<<T_a, T_g>>, SP), Join(<<T_a, T_W>>, SP)>>, TRUE),
      <<>> }

\* The values of -s: absent, the empty string, and b.cpp, which some of the
\* logs name and others do not.
SingleFiles == {NoneSeq, <<>>, T_b}

MaxRuns == 2

\* The arguments of a run, the length of the report when it starts, and how
\* the run ended.
Run(single, exported, start) ==
    [single_file |-> single, globals_only |-> exported, start |-> start,
     outcome |-> "running"]

\* The program is run again, on the same log, source tree and report.
NewRun ==
    /\ main_pc = "exited"
    /\ Len(runs) < MaxRuns
    /\ \E single \in SingleFiles, exported \in BOOLEAN :
          /\ Started(data_file, single, exported)
          /\ runs' = Append(runs, Run(single, exported, Len(report)))
    /\ UNCHANGED <<report, tree, dict_order, workers>>

InitMain ==
    /\ data_file \in MainLogs
    /\ fd = <<>>
    /\ ret = EmptyDict
    /\ load_pc = "open"
    /\ load_result = None
    /\ tu = <<>>
    /\ file_filter = None
    /\ globals_only = FALSE
    /\ scan_pc = "uncalled"
    /\ child_idx = 1
    /\ res = EmptyDict
    /\ to_process = <<>>
    /\ fmt_strs = {}
    /\ VAR_ARG_COUNT = 0
    /\ dequeued = <<>>
    /\ scan_result = None
    /\ main_pc = "load"
    /\ single_file \in SingleFiles
    /\ main_globals_only \in BOOLEAN
    /\ items = <<>>
    /\ src_file = NoneSeq
    /\ file_count = 0
    /\ func_count = 0
    /\ main_outcome = "running"
    /\ exit_status = <<>>
    /\ report = <<>>
    /\ tree \in Trees
    /\ dict_order \in Orders({T_a, T_b})
    /\ runs = <<Run(single_file, main_globals_only, 0)>>
    /\ parsed = <<>>
    /\ held = {}
    /\ NoWorkers

NextMain ==
    \/ Open \/ OpenError \/ ReadLine \/ Return
    \/ LoadFailed \/ UnknownFile \/ BeginSingle \/ BeginAll
    \/ ParseFile \/ ParseError \/ ScanFile
    \/ BeginScan \/ SkipChild \/ BeginFunction \/ Visit \/ EndFunction \/ ReturnScan
    \/ ScanError \/ RecordFile \/ SkipFile \/ EndMain
    \/ NewRun

SpecMain == InitMain /\ [][NextMain]_vars

-----------------------------------------------------------------------------
(* What a log says, read as the specification reads it: a line is a       *)
(* sequence of whitespace-delimited words.  These definitions state the   *)
(* claims; they model no code.                                            *)

IsSpace(ch) == ch \in {SP, NL, TAB}

RECURSIVE Words(_)
Words(s) ==
    IF s = <<>> THEN <<>>
    ELSE IF IsSpace(s[1]) THEN Words(Tail(s))
    ELSE LET n == CHOOSE k \in 1..Len(s) :
                      /\ \A j \in 1..k : ~IsSpace(s[j])
                      /\ k = Len(s) \/ IsSpace(s[k + 1])
         IN  <<SubSeq(s, 1, n)>> \o Words(SubSeq(s, n + 1, Len(s)))

\* Word p of w is the output path of a preceding -o.
RECURSIVE IsOutName(_, _)
IsOutName(w, p) == p > 1 /\ w[p - 1] = T_o /\ ~IsOutName(w, p - 1)

IsOutFlag(w, p) == w[p] = T_o /\ ~IsOutName(w, p)

IsSourceWord(w, p) ==
    /\ ~IsOutName(w, p)
    /\ EndsWith(w[p], Suffix_c) \/ EndsWith(w[p], Suffix_cpp)

IsDiscardFlag(t) == t \in {T_c, T_emit_ast, T_fsyntax_only}

\* The source files a line names, and the flags it keeps.
RefSources(w) ==
    {w[p] : p \in {q \in 1..Len(w) : IsSourceWord(w, q) /\ exists(abspath(w[q]))}}

RefFlags(w) ==
    {w[p] : p \in {q \in 1..Len(w) : /\ ~IsOutName(w, q)
                                     /\ ~IsOutFlag(w, q)
                                     /\ ~IsSourceWord(w, q)
                                     /\ ~IsDiscardFlag(w[q])}}

SameBag(v, w) ==
    /\ Len(v) = Len(w)
    /\ \A t \in {v[p] : p \in 1..Len(v)} \cup {w[p] : p \in 1..Len(w)} :
          Cardinality({p \in 1..Len(v) : v[p] = t})
              = Cardinality({p \in 1..Len(w) : w[p] = t})

LogLine(i) == FileLines(data_file)[i]
LineWords(i) == Words(LogLine(i))
NumLines == Len(FileLines(data_file))
LoadOpened == load_pc \in {"reading", "returned", "CompileArgsError"}
LoadEnded == load_pc \in {"returned", "CompileArgsError"}
\* How many lines of the log the load has consumed.
LinesRead == IF LoadOpened THEN NumLines - Len(FileLines(fd)) ELSE 0

-----------------------------------------------------------------------------
(* Claims about ccargparse.py *)

\* What the parser derives from each line of the log.
Derived ==
    LET lines == FileLines(data_file)
    IN  [i \in 1..Len(lines) |-> process_data_line(lines[i])]

\* In the derivations d, lines i < j derive the same source file with
\* differing argument sets.
ConflictIn(d, i, j) ==
    /\ i < j
    /\ \E p \in d[i], q \in d[j] : p[1] = q[1] /\ p[2] # q[2]

ConflictAt(i, j) == ConflictIn(Derived, i, j)

\* C1: once the load has consumed two lines that derive the same source
\* file with differing argument sets, it has failed with CompileArgsError
\* and has handed no mapping to its caller, whatever lines come before the
\* two or after them.
C1_ConflictAbortsLoad ==
    LoadOpened =>
        LET d == Derived
            read == LinesRead
        IN  \A i, j \in 1..Len(d) :
                (read >= j /\ ConflictIn(d, i, j))
                    => (load_pc = "CompileArgsError" /\ load_result = None)

\* C1 witness: a three-line log whose first line is consistent and whose
\* second and third lines conflict; the load has failed with part of the
\* log already in its local dictionary.
C1_Witness ==
    /\ NumLines = 3
    /\ ConflictAt(2, 3)
    /\ ~ConflictAt(1, 2) /\ ~ConflictAt(1, 3)
    /\ process_data_line(LogLine(1)) # {}
    /\ load_pc = "CompileArgsError"
    /\ DOMAIN ret # {}
    /\ load_result = None

\* Every line of the log is a reordering of the same words, with the same
\* source files and the same flags, and at least two lines differ in order.
ReorderedLog ==
    /\ NumLines >= 2
    /\ RefSources(LineWords(1)) # {}
    /\ \A i \in 2..NumLines :
          /\ SameBag(LineWords(1), LineWords(i))
          /\ RefSources(LineWords(i)) = RefSources(LineWords(1))
          /\ RefFlags(LineWords(i)) = RefFlags(LineWords(1))
    /\ \E i \in 2..NumLines : LineWords(i) # LineWords(1)

\* C2: when the same source file appears on several lines whose flags are
\* the same set in a different order, the load succeeds and the mapping has
\* a record for the file.
C2_ReorderedLinesCollapse ==
    (ReorderedLog /\ LoadEnded)
        => /\ load_pc = "returned"
           /\ \A f \in RefSources(LineWords(1)) : f \in DOMAIN load_result

\* A log with no dangling -o, no source file named twice, and every named
\* source file on disk.
WellFormedLog ==
    \A i \in 1..NumLines :
        /\ LineWords(i) # <<>>
        /\ ~IsOutFlag(LineWords(i), Len(LineWords(i)))
        /\ \A p \in 1..Len(LineWords(i)) :
              IsSourceWord(LineWords(i), p) => exists(abspath(LineWords(i)[p]))
        /\ \A j \in 1..NumLines :
              i # j => RefSources(LineWords(i)) \cap RefSources(LineWords(j)) = {}

RefKeys == UNION {RefSources(LineWords(i)) : i \in 1..NumLines}

RefMapping ==
    [f \in RefKeys |->
        RefFlags(LineWords(CHOOSE i \in 1..NumLines : f \in RefSources(LineWords(i))))]

\* C3: for a well-formed log with no repeated source file, the load returns
\* the mapping whose keys are the source files the log names, each mapped to
\* the kept flags of its own line.
C3_OneRecordPerSource ==
    (WellFormedLog /\ LoadEnded)
        => (load_pc = "returned" /\ load_result = RefMapping)

\* The word t occurs in the lines read so far only as the output path of -o.
OnlyOutName(t) ==
    \A i \in 1..LinesRead : \A p \in 1..Len(LineWords(i)) :
        LineWords(i)[p] = t => IsOutName(LineWords(i), p)

OutNamesRead ==
    {t \in UNION {{LineWords(i)[p] : p \in 1..Len(LineWords(i))} : i \in 1..LinesRead} :
        OnlyOutName(t)}

\* C4: no argument set holds the output flag -o or the word that follows
\* it, and the word that follows -o is never a key of the mapping.
C4_OutputPairDiscarded ==
    /\ \A f \in DOMAIN ret : \A t \in ret[f] :
          /\ Words(t) # <<T_o>>
          /\ \A n \in OutNamesRead : Words(t) # <<n>>
    /\ \A n \in OutNamesRead : n \notin DOMAIN ret

\* Word p of w has a source-file suffix and names no file on disk.
IsMissingSource(w, p) == IsSourceWord(w, p) /\ ~exists(abspath(w[p]))

\* The words of the lines read so far that name a missing source file.
MissingRead ==
    UNION { {LineWords(i)[p] : p \in {q \in 1..Len(LineWords(i)) :
                                         IsMissingSource(LineWords(i), q)}} :
            i \in 1..LinesRead }

\* The words that the members of an argument set are made of.
WordsIn(args) == UNION { {Words(t)[p] : p \in 1..Len(Words(t))} : t \in args }

\* C18: a word with a source-file suffix that names no file on disk is never
\* a key of the mapping and never in an argument set, and the load returns
\* the other source files of its line with the line's flags.
C18_MissingSourceDiscarded ==
    /\ \A m \in MissingRead :
          /\ m \notin DOMAIN ret
          /\ \A f \in DOMAIN ret : m \notin WordsIn(ret[f])
    /\ load_pc = "returned" =>
          \A i \in 1..NumLines :
              (\E p \in 1..Len(LineWords(i)) : IsMissingSource(LineWords(i), p)) =>
                  \A f \in RefSources(LineWords(i)) :
                      /\ f \in DOMAIN load_result
                      /\ WordsIn(load_result[f]) = RefFlags(LineWords(i))

\* C25: a line that names several source files on disk yields one pair per
\* distinct source file, and every pair carries the same argument set: all
\* the kept flags of the line, those after a source file included.
C25_SourcesShareLineFlags ==
    \A i \in 1..LinesRead :
        Cardinality(RefSources(LineWords(i))) >= 2 =>
            process_data_line(LogLine(i))
                = {<<f, RefFlags(LineWords(i))>> : f \in RefSources(LineWords(i))}

\* The token is not empty and has no whitespace character.
IsCleanToken(t) == t # <<>> /\ \A i \in 1..Len(t) : ~IsSpace(t[i])

\* C26: no key of the mapping and no member of an argument set is the empty
\* string or holds a space, a tab or a line break.
C26_TokensHaveNoWhitespace ==
    \A f \in DOMAIN ret :
        /\ IsCleanToken(f)
        /\ \A t \in ret[f] : IsCleanToken(t)

\* C24: no argument set of the mapping holds -c, -emit-ast or -fsyntax-only,
\* wherever on its line the flag stands, the end of the line included.
C24_CompileOnlyFlagsDiscarded ==
    /\ \A f \in DOMAIN ret : \A t \in WordsIn(ret[f]) : ~IsDiscardFlag(t)
    /\ load_pc = "returned" =>
          \A f \in DOMAIN load_result :
              \A t \in WordsIn(load_result[f]) : ~IsDiscardFlag(t)

\* The derivations d have a pair for the source file f on line i.
DerivesOn(d, i, f) == \E p \in d[i] : p[1] = f

\* The argument set of the first line of d that derives f.
FirstArgs(d, f) ==
    LET i == CHOOSE k \in 1..Len(d) :
                 DerivesOn(d, k, f) /\ \A j \in 1..(k - 1) : ~DerivesOn(d, j, f)
    IN  (CHOOSE p \in d[i] : p[1] = f)[2]

\* C28: during the load no step removes a source file from the mapping or
\* changes its stored argument set, and the stored set is the one the first
\* line naming the file derived: a later line leaves the entry as it is or
\* aborts the load.
C28_StoredArgsNeverChange ==
    /\ [][\A f \in DOMAIN ret : f \in DOMAIN ret' /\ ret'[f] = ret[f]]_vars
    /\ [](DOMAIN ret # {} =>
            LET d == Derived
            IN  \A f \in DOMAIN ret : ret[f] = FirstArgs(d, f))

\* C28 witness: a.c is derived on all three lines of the log, by the second
\* as by the first and by the third with other arguments; the load has
\* aborted and the mapping holds what the first line derived.
C28_Witness ==
    /\ load_pc = "CompileArgsError"
    /\ NumLines = 3
    /\ \A i \in 1..3 : DerivesOn(Derived, i, T_a)
    /\ ~ConflictAt(1, 2)
    /\ ConflictAt(1, 3)
    /\ T_a \in DOMAIN ret
    /\ ret[T_a] = FirstArgs(Derived, T_a)

\* The last word of line i is an output flag -o with nothing after it.
EndsWithOutFlag(i) ==
    LineWords(i) # <<>> /\ IsOutFlag(LineWords(i), Len(LineWords(i)))

\* The step in which the load reads line i of the log without raising.
ReadsLine(i) == LinesRead = i - 1 /\ load_pc' = "reading" /\ fd' # fd

\* C30: when a line ends with -o, the first word of the following line is
\* classified as on any line: a source file on disk becomes a key of the
\* mapping, and a flag that is kept is in the argument set of every source
\* file the line gives.
C30_SkipEndsWithLine ==
    [][ \A i \in 2..NumLines :
          (ReadsLine(i) /\ EndsWithOutFlag(i - 1) /\ Len(LineWords(i)) >= 2) =>
              LET w == LineWords(i)
              IN  /\ (IsSourceWord(w, 1) /\ exists(abspath(w[1])))
                        => w[1] \in DOMAIN ret'
                  /\ (~IsSourceWord(w, 1) /\ ~IsDiscardFlag(w[1]) /\ w[1] # T_o)
                        => \A p \in process_data_line(LogLine(i)) :
                               w[1] \in ret'[p[1]] ]_vars

\* C30 witness: the first line ends with -o and the second starts with
\* b.cpp, which no other line names; the load has returned a mapping with
\* b.cpp as a key.
C30_Witness ==
    /\ load_pc = "returned"
    /\ NumLines = 2
    /\ EndsWithOutFlag(1)
    /\ LineWords(2)[1] = T_b
    /\ T_b \notin RefSources(LineWords(1))
    /\ T_b \in DOMAIN load_result

-----------------------------------------------------------------------------
(* What a function's AST says: the sentinel calls in it and the literals   *)
(* they pass.  These definitions state the claims; they model no code.     *)

RECURSIVE PathsOf(_)
PathsOf(node) ==
    {<<>>} \cup UNION { {<<i>> \o q : q \in PathsOf(node.children[i])} :
                         i \in 1..Len(node.children) }

\* A call whose callee, under one implicit conversion, is the sentinel.
IsSentinelCall(n) ==
    /\ n.kind = "CALL_EXPR"
    /\ Len(n.children) >= 1
    /\ Len(n.children[1].children) >= 1
    /\ n.children[1].children[1].displayname = ZEND_FUNC

\* The call has a format-string argument where the scanner looks for it.
HasFmtArg(n) ==
    /\ Len(n.children) >= 3
    /\ Len(n.children[3].children) >= 1
    /\ Len(n.children[3].children[1].children) >= 1

FmtArg(n) == n.children[3].children[1].children[1]

IsLiteralCall(n) ==
    IsSentinelCall(n) /\ HasFmtArg(n) /\ FmtArg(n).kind = "STRING_LITERAL"

IsVariableCall(n) ==
    IsSentinelCall(n) /\ HasFmtArg(n) /\ FmtArg(n).kind # "STRING_LITERAL"

\* The text of the literal a literal call passes.
LiteralText(n) ==
    CHOOSE text \in FmtTexts :
        \/ FmtArg(n).tokens = <<Quote(text)>>
        \/ text = F_empty /\ FmtArg(n).tokens = <<NoneSeq>>

SentinelPaths(f) == {q \in PathsOf(f) : IsSentinelCall(NodeAt(f, q))}

IsProperPrefix(q, r) == Len(q) < Len(r) /\ SubSeq(r, 1, Len(q)) = q

\* The sentinel calls that are not below another sentinel call.
OuterSentinelPaths(f) ==
    LET calls == SentinelPaths(f)
    IN  {q \in calls : \A r \in calls : ~IsProperPrefix(r, q)}

\* Every outer sentinel call has its format-string argument.
WellShaped(f) == \A q \in OuterSentinelPaths(f) : HasFmtArg(NodeAt(f, q))

\* The non-empty literals of the outer sentinel calls.
Collected(f) ==
    {LiteralText(NodeAt(f, q)) :
        q \in {r \in OuterSentinelPaths(f) : IsLiteralCall(NodeAt(f, r))}}
    \ {F_empty}

\* f has sentinel calls and every one of them passes the literal text.
AllPass(f, text) ==
    /\ SentinelPaths(f) # {}
    /\ \A q \in SentinelPaths(f) :
          IsLiteralCall(NodeAt(f, q)) /\ LiteralText(NodeAt(f, q)) = text

\* The child of the root is a function that the filters let through.
PassesFilters(c) ==
    /\ c.kind = "FUNCTION_DECL"
    /\ file_filter # None => c.file = file_filter
    /\ globals_only => (Len(c.spelling) >= 4 /\ SubSeq(c.spelling, 1, 4) = ZifPrefix)

ScanFailed == scan_pc \notin {"idle", "loop", "bfs", "returned"}

\* The scan has finished child k of the root without an exception.
Finished(k) == child_idx > k

ElementsOf(list) == {list[i] : i \in 1..Len(list)}

\* The cursor the scanner has just taken off its queue.
LastDequeued == NodeAt(tu[child_idx], dequeued[Len(dequeued)])

\* The cursor the scanner takes off its queue next.
NextDequeued == NodeAt(tu[child_idx], Head(to_process))

\* A step of the while loop of process_function.
VisitStep == scan_pc = "bfs" /\ to_process # <<>> /\ dequeued' # dequeued

-----------------------------------------------------------------------------
(* Claims about parse_php.py *)

\* Child k is a scanned function whose traversal completes with two or more
\* distinct non-empty literals.
Ambiguous(k) ==
    /\ PassesFilters(tu[k])
    /\ WellShaped(tu[k])
    /\ Cardinality(Collected(tu[k])) >= 2

\* C5, as claimed: a function that collects two or more distinct literals
\* gets no result recorded, and its scan ends in FunctionProcessingError.
C5_AmbiguityIsAnError ==
    \A k \in 1..Len(tu) :
        Ambiguous(k) =>
            /\ tu[k].spelling \notin DOMAIN res
            /\ Finished(k) => scan_pc = "FunctionProcessingError"

\* C5, amended: a function whose traversal completes with two or more
\* distinct non-empty literals raises nothing, and the scan records under
\* its name the list of all of them, each once.
C5_AllLiteralsRecorded ==
    \A k \in 1..Len(tu) :
        Ambiguous(k) =>
            /\ child_idx = k => ~ScanFailed
            /\ Finished(k) =>
                  /\ tu[k].spelling \in DOMAIN res
                  /\ ElementsOf(res[tu[k].spelling]) = Collected(tu[k])
                  /\ Len(res[tu[k].spelling]) = Cardinality(Collected(tu[k]))

\* C5 witness: the scan has returned with both literals of such a function.
C5_Witness ==
    \E k \in 1..Len(tu) :
        /\ Ambiguous(k)
        /\ scan_pc = "returned"
        /\ Len(scan_result[tu[k].spelling]) = 2

\* C6: a scanned function whose sentinel calls all pass the same non-empty
\* literal s is mapped to the one-element list [s], however many calls
\* there are.
C6_SameLiteralOneEntry ==
    \A k \in 1..Len(tu) : \A text \in FmtTexts \ {F_empty} :
        (PassesFilters(tu[k]) /\ AllPass(tu[k], text)) =>
            /\ child_idx = k => ~ScanFailed
            /\ Finished(k) =>
                  /\ tu[k].spelling \in DOMAIN res
                  /\ res[tu[k].spelling] = <<text>>
            /\ scan_pc = "returned" =>
                  /\ tu[k].spelling \in DOMAIN scan_result
                  /\ scan_result[tu[k].spelling] = <<text>>

\* C6 witness: a function with two calls passing "zs" is reported as ["zs"].
C6_Witness ==
    \E k \in 1..Len(tu) :
        /\ PassesFilters(tu[k])
        /\ AllPass(tu[k], F_zs)
        /\ Cardinality(SentinelPaths(tu[k])) >= 2
        /\ scan_pc = "returned"
        /\ scan_result[tu[k].spelling] = <<F_zs>>

\* C7: the step that processes a sentinel call whose format-string argument
\* is not a string literal adds exactly 1 to VAR_ARG_COUNT, leaves the
\* function's set of format strings as it was, and raises nothing.
C7_VariableArgumentCounted ==
    [][ (VisitStep /\ IsVariableCall(NextDequeued))
            => /\ VAR_ARG_COUNT' = VAR_ARG_COUNT + 1
               /\ fmt_strs' = fmt_strs
               /\ scan_pc' = "bfs" ]_vars

\* C7 witness: the scanner has just processed a sentinel call passing a
\* variable; the counter is 1 and the set is empty.
C7_Witness ==
    /\ scan_pc = "bfs"
    /\ dequeued # <<>>
    /\ IsVariableCall(LastDequeued)
    /\ VAR_ARG_COUNT = 1
    /\ fmt_strs = {}

\* C8: a scanned function whose sentinel calls all pass the empty literal
\* is not in the result, and the step that processes a call passing the
\* empty literal changes neither the set of format strings nor
\* VAR_ARG_COUNT.
C8_EmptyLiteralOmitted ==
    /\ [](\A k \in 1..Len(tu) :
            (PassesFilters(tu[k]) /\ AllPass(tu[k], F_empty)) =>
                /\ child_idx = k => ~ScanFailed
                /\ tu[k].spelling \notin DOMAIN res
                /\ scan_pc = "returned" => tu[k].spelling \notin DOMAIN scan_result)
    /\ [][ (VisitStep /\ IsLiteralCall(NextDequeued)
                      /\ LiteralText(NextDequeued) = F_empty)
              => /\ VAR_ARG_COUNT' = VAR_ARG_COUNT
                 /\ fmt_strs' = fmt_strs
                 /\ scan_pc' = "bfs" ]_vars

\* C8 witness: the scan has returned without the function whose calls pass
\* the empty literal, and the counter is 0.
C8_Witness ==
    \E k \in 1..Len(tu) :
        /\ PassesFilters(tu[k])
        /\ AllPass(tu[k], F_empty)
        /\ scan_pc = "returned"
        /\ tu[k].spelling \notin DOMAIN scan_result
        /\ VAR_ARG_COUNT = 0

\* C9: every name in the mapping is the name of a direct child of the root
\* that is a FUNCTION_DECL located in file_filter (when supplied) and, under
\* globals_only, named zif_...; no other child is ever scanned.
C9_OnlyFilteredFunctions ==
    /\ \A name \in DOMAIN res :
          \E k \in 1..Len(tu) : PassesFilters(tu[k]) /\ tu[k].spelling = name
    /\ scan_pc = "returned" =>
          \A name \in DOMAIN scan_result :
              \E k \in 1..Len(tu) : PassesFilters(tu[k]) /\ tu[k].spelling = name
    /\ (scan_pc = "bfs" \/ ScanFailed) => PassesFilters(tu[child_idx])

\* C9 witness: a unit with a reported function and a function in another
\* file that has a sentinel call and is not reported.
C9_Witness ==
    /\ scan_pc = "returned"
    /\ DOMAIN scan_result # {}
    /\ \E k \in 1..Len(tu) :
          /\ tu[k].kind = "FUNCTION_DECL"
          /\ tu[k].file # file_filter
          /\ Collected(tu[k]) # {}
          /\ tu[k].spelling \notin DOMAIN scan_result

\* C10, as claimed: every value of the returned mapping is a list of
\* exactly one non-empty format string.
C10_ExactlyOneString ==
    scan_pc = "returned" =>
        \A name \in DOMAIN scan_result :
            /\ Len(scan_result[name]) = 1
            /\ scan_result[name][1] # F_empty

\* C10, amended: every value of the returned mapping is a non-empty list of
\* distinct non-empty format strings, the literals collected in a scanned
\* function of that name; a function that collected none is absent.
C10_NonEmptyDistinctStrings ==
    scan_pc = "returned" =>
        \A name \in DOMAIN scan_result :
            LET list == scan_result[name]
            IN  /\ Len(list) >= 1
                /\ \A i \in 1..Len(list) : list[i] # F_empty
                /\ \A i, j \in 1..Len(list) : i # j => list[i] # list[j]
                /\ \E k \in 1..Len(tu) :
                      /\ PassesFilters(tu[k])
                      /\ tu[k].spelling = name
                      /\ Collected(tu[k]) = ElementsOf(list)

\* C10 witness: a returned mapping with a two-string value, for a unit that
\* also has a scanned function that collected nothing.
C10_Witness ==
    /\ scan_pc = "returned"
    /\ \E name \in DOMAIN scan_result : Len(scan_result[name]) = 2
    /\ \E k \in 1..Len(tu) :
          /\ PassesFilters(tu[k])
          /\ SentinelPaths(tu[k]) # {}
          /\ Collected(tu[k]) = {}
          /\ tu[k].spelling \notin DOMAIN scan_result

\* The traversal of the function tu[child_idx] is under way, has emptied
\* its queue, or was left by an exception.
InTraversal == scan_pc = "bfs" \/ ScanFailed
TraversalDone == scan_pc = "bfs" /\ to_process = <<>>
\* The traversal has ended: its queue is empty or an exception has left the
\* loop.
TraversalEnded == TraversalDone \/ ScanFailed

\* C19: no cursor below a sentinel call is ever taken off the queue, and no
\* cursor is taken off twice; a step that takes off anything but a sentinel
\* call without sentinel-call ancestor changes neither the set of format
\* strings nor VAR_ARG_COUNT; and when the traversal has ended, every
\* sentinel call without sentinel-call ancestor has been taken off.
C19_SentinelCallIsTerminal ==
    /\ [](InTraversal =>
            LET f == tu[child_idx]
                calls == SentinelPaths(f)
            IN  /\ \A i \in 1..Len(dequeued) :
                      \A r \in calls : ~IsProperPrefix(r, dequeued[i])
                /\ \A i, j \in 1..Len(dequeued) :
                      i # j => dequeued[i] # dequeued[j]
                /\ TraversalEnded =>
                      \A q \in OuterSentinelPaths(f) :
                          \E i \in 1..Len(dequeued) : dequeued[i] = q)
    /\ [][ (VisitStep /\ Head(to_process) \notin OuterSentinelPaths(tu[child_idx]))
              => /\ fmt_strs' = fmt_strs
                 /\ VAR_ARG_COUNT' = VAR_ARG_COUNT ]_vars

\* A sentinel call whose third child has a STRING_LITERAL as its first
\* child, and the text of that literal.
IsOneLevelLiteralCall(n) ==
    /\ IsSentinelCall(n)
    /\ Len(n.children) >= 3
    /\ Len(n.children[3].children) >= 1
    /\ n.children[3].children[1].kind = "STRING_LITERAL"

OneLevelText(n) ==
    CHOOSE text \in FmtTexts : n.children[3].children[1].tokens = <<Quote(text)>>

\* The scanner has taken a cursor off its queue in the current traversal.
Processed == InTraversal /\ dequeued # <<>>

\* C20, as claimed: a sentinel call whose third child is a wrapper whose
\* first child is a STRING_LITERAL is processed as a literal argument: its
\* text is in the set of format strings and nothing is raised.
C20_UnwrapsOneLevel ==
    (Processed /\ IsOneLevelLiteralCall(LastDequeued)) =>
        /\ scan_pc = "bfs"
        /\ OneLevelText(LastDequeued) \in fmt_strs

\* C20, amended: the cursor whose kind decides is the first child of the
\* first child of the call's third child.  When it is a STRING_LITERAL the
\* call is processed as a literal argument, its text (unless empty) is in
\* the set of format strings and nothing is raised; when it is of another
\* kind the call is counted as a variable argument.
C20_UnwrapsTwoLevels ==
    /\ (Processed /\ IsLiteralCall(LastDequeued)) =>
          /\ scan_pc = "bfs"
          /\ LiteralText(LastDequeued) # F_empty
                => LiteralText(LastDequeued) \in fmt_strs
    /\ (Processed /\ IsVariableCall(LastDequeued)) =>
          /\ scan_pc = "bfs"
          /\ VAR_ARG_COUNT >= 1

\* C20 witness: the scanner has just processed a call whose third child
\* wraps a wrapper of the literal "ss"; the text is in the set and the
\* counter is 0.
C20_Witness ==
    /\ Processed
    /\ IsLiteralCall(LastDequeued)
    /\ LastDequeued.children[3].kind = "UNEXPOSED_EXPR"
    /\ LastDequeued.children[3].children[1].kind = "UNEXPOSED_EXPR"
    /\ LiteralText(LastDequeued) = F_ss
    /\ fmt_strs = {F_ss}
    /\ VAR_ARG_COUNT = 0

\* A sentinel call with fewer than three children, or whose third child has
\* no child.
IsShortCall(n) ==
    /\ IsSentinelCall(n)
    /\ Len(n.children) < 3 \/ Len(n.children[3].children) = 0

\* C21: processing a sentinel call with fewer than three children, or whose
\* argument wrapper has no child, raises nothing and leaves the set of format
\* strings without a string of its own making; the traversal goes on, and
\* when its queue has run empty every sentinel call without sentinel-call
\* ancestor has been taken off.
C21_ShortCallIsAbsent ==
    /\ (Processed /\ IsShortCall(LastDequeued)) =>
          /\ scan_pc = "bfs"
          /\ fmt_strs \subseteq FmtTexts \ {F_empty}
    /\ (InTraversal /\ \E q \in OuterSentinelPaths(tu[child_idx]) :
                           IsShortCall(NodeAt(tu[child_idx], q))) =>
          /\ ~ScanFailed
          /\ TraversalDone =>
                \A q \in OuterSentinelPaths(tu[child_idx]) :
                    \E i \in 1..Len(dequeued) : dequeued[i] = q

\* How often the cursor at path q was taken off the queue.
TimesDequeued(q) == Cardinality({i \in 1..Len(dequeued) : dequeued[i] = q})

\* C29: no cursor of the function's tree is taken off the queue twice, and
\* when the loop of process_function has ended, a cursor without
\* sentinel-call ancestor has been taken off exactly once and a cursor below
\* a sentinel call never.
C29_EveryNodeOnce ==
    InTraversal =>
        LET f == tu[child_idx]
            calls == SentinelPaths(f)
        IN  \A q \in PathsOf(f) :
                /\ TimesDequeued(q) <= 1
                /\ TraversalEnded =>
                      TimesDequeued(q)
                          = IF \E r \in calls : IsProperPrefix(r, q) THEN 0 ELSE 1

-----------------------------------------------------------------------------
(* Claims about main *)

\* main was given a file name that selects its single-file branch.
SingleFileMode == single_file # NoneSeq /\ single_file # <<>>

\* The length of the report when the current run started, and what the
\* current run has appended to it.
RunStart == runs[Len(runs)].start
AppendedInRun == SubSeq(report, RunStart + 1, Len(report))

\* The load of the current run has returned its mapping to main.
Loaded == load_pc = "returned"

\* C11: in single-file mode, when the named file is not a key of the loaded
\* mapping, main goes nowhere but to its end with a non-zero exit status,
\* index.parse is called on no file, and the report gets nothing.
C11_UnknownFileIsFatal ==
    (SingleFileMode /\ Loaded /\ single_file \notin DOMAIN load_result) =>
        /\ main_pc \in {"load", "exited"}
        /\ parsed = <<>>
        /\ AppendedInRun = <<>>
        /\ main_pc = "exited" =>
              /\ main_outcome = "return -1"
              /\ exit_status # <<>> /\ exit_status # <<0>>

\* C11 witness: a second run asks for b.cpp, which the loaded mapping of a.c
\* lacks; it has exited with status 255, and the report of the first run is
\* as it was.
C11_Witness ==
    /\ main_pc = "exited"
    /\ Loaded
    /\ single_file = T_b
    /\ DOMAIN load_result = {T_a}
    /\ exit_status = <<255>>
    /\ Len(runs) = 2
    /\ Len(report) > 0

\* The log of the run derives some file twice with differing arguments.
Contradictory ==
    LET d == Derived
    IN  \E i, j \in 1..Len(d) : ConflictIn(d, i, j)

\* C12: when the log is self-contradictory, main goes nowhere but to its end
\* in failure with a non-zero exit status; index.parse is called on no file
\* and the report gets nothing.
C12_ConflictStopsRun ==
    (main_pc # "idle" /\ Contradictory) =>
        /\ main_pc \in {"load", "exited"}
        /\ parsed = <<>>
        /\ AppendedInRun = <<>>
        /\ main_pc = "exited" =>
              /\ main_outcome \in {"CompileArgsError", "IOError"}
              /\ exit_status # <<>> /\ exit_status # <<0>>

\* C12 witness: the run on the log whose two lines give a.c differing
\* arguments has ended with CompileArgsError and exit status 1.
C12_Witness ==
    /\ main_pc = "exited"
    /\ NumLines = 2
    /\ ConflictAt(1, 2)
    /\ main_outcome = "CompileArgsError"
    /\ exit_status = <<1>>
    /\ parsed = <<>>

\* The files the run has to process: the named one, or all of the mapping.
ToProcess == IF SingleFileMode THEN {single_file} ELSE DOMAIN load_result

\* Every file the run has to process parses, and no function in any of them
\* passes a non-empty literal to the sentinel.
NoMatches ==
    \A f \in ToProcess :
        /\ tree[f].ok
        /\ \A k \in 1..Len(tree[f].unit) : Collected(tree[f].unit[k]) = {}

\* C13: a run whose files all parse and in which no function matches never
\* fails, appends nothing to the report, and ends with exit status 0.
C13_NoMatchIsSuccess ==
    (/\ Loaded
     /\ ~(SingleFileMode /\ single_file \notin DOMAIN load_result)
     /\ NoMatches) =>
        /\ main_outcome \in {"running", "return None"}
        /\ AppendedInRun = <<>>
        /\ main_pc = "exited" => exit_status = <<0>>
        /\ (main_pc = "scan" /\ scan_pc = "returned") => DOMAIN scan_result = {}

\* The text is one block for the file src and the mapping data: a header
\* line naming src, then for every function of data exactly one line, the
\* function's name followed by its format strings.
IsBlock(text, src, data) ==
    LET lines == FileLines(text)
    IN  /\ text # <<>>
        /\ text[Len(text)] = NL
        /\ Len(lines) = 1 + Cardinality(DOMAIN data)
        /\ Words(lines[1]) = << <<"#">>, src >>
        /\ \A name \in DOMAIN data :
              \E i \in 2..Len(lines) :
                  /\ Words(lines[i]) = <<name>> \o data[name]
                  /\ \A j \in 2..Len(lines) :
                        j # i => Words(lines[j])[1] # name

IsPrefix(old, new) == Len(old) <= Len(new) /\ SubSeq(new, 1, Len(old)) = old

\* main takes the mapping process_all_functions returned for src_file.
ScanReturnedStep == main_pc = "scan" /\ scan_pc = "returned" /\ main_pc' = "parse"

\* C14: the report changes only in the step in which main takes the scan
\* result of a file, and only when that result has a function; what is
\* added then is one block, a header line naming the file and exactly one
\* line per function of the result.
C14_BlockPerMatchingFile ==
    [][ IF ScanReturnedStep /\ DOMAIN scan_result # {}
        THEN /\ IsPrefix(report, report')
             /\ IsBlock(SubSeq(report', Len(report) + 1, Len(report')),
                        src_file, scan_result)
        ELSE report' = report ]_vars

\* C14 witness: a run over a file with two matching functions and a file
\* with none has ended; the report is the one block of three lines.
C14_Witness ==
    /\ main_pc = "exited"
    /\ Len(runs) = 1
    /\ Len(parsed) = 2
    /\ main_outcome = "return None"
    /\ Len(FileLines(report)) = 3
    /\ Words(FileLines(report)[1]) = << <<"#">>, T_a >>
    /\ {Words(FileLines(report)[i])[1] : i \in 2..3} = {N_zif_f, N_h}

\* C15: every step leaves the previous content of the report as a prefix of
\* its new content.
C15_ReportOnlyGrows == [][IsPrefix(report, report')]_vars

\* C15 witness: a second run has added to what the first run wrote.
C15_Witness ==
    /\ Len(runs) = 2
    /\ RunStart > 0
    /\ Len(report) > RunStart
    /\ main_pc = "exited"

\* A line of the report that names a source file.
IsHeader(line) == line # <<>> /\ line[1] = "#"

\* A function line of the report, the order of its format strings aside:
\* the function's name and the set of its format strings.
FuncLine(line) ==
    <<Words(line)[1], {Words(line)[i] : i \in 2..Len(Words(line))}>>

\* The blocks of a report, the order of the functions within a block and of
\* the format strings within a line aside: each block is its header line and
\* the set of its function lines.
RECURSIVE BlocksOf(_)
BlocksOf(lines) ==
    IF lines = <<>> THEN <<>>
    ELSE LET n == CHOOSE k \in 1..Len(lines) :
                      /\ \A j \in 2..k : ~IsHeader(lines[j])
                      /\ k = Len(lines) \/ IsHeader(lines[k + 1])
         IN  <<[header |-> lines[1], funcs |-> {FuncLine(lines[j]) : j \in 2..n}]>>
                 \o BlocksOf(SubSeq(lines, n + 1, Len(lines)))

\* Run k has ended.
RunEnded(k) == k < Len(runs) \/ (k = Len(runs) /\ main_pc = "exited")

\* The length of the report when run k ended, and what run k added to it.
RunEnd(k) == IF k < Len(runs) THEN runs[k + 1].start ELSE Len(report)
RunText(k) == SubSeq(report, runs[k].start + 1, RunEnd(k))

\* Runs k and k + 1 were given the same arguments, with globals_only off,
\* and both could open the log; the log and the source tree are the same in
\* every run.
SameRunTwice(k) ==
    /\ k + 1 <= Len(runs)
    /\ RunEnded(k + 1)
    /\ runs[k].single_file = runs[k + 1].single_file
    /\ ~runs[k].globals_only /\ ~runs[k + 1].globals_only
    /\ runs[k].outcome # "IOError" /\ runs[k + 1].outcome # "IOError"

\* C16, as claimed: after the second of two equal runs the report holds the
\* same blocks as after the first.
C16_SecondRunChangesNothing ==
    \A k \in 1..Len(runs) :
        SameRunTwice(k) =>
            BlocksOf(FileLines(SubSeq(report, 1, RunEnd(k + 1))))
                = BlocksOf(FileLines(SubSeq(report, 1, RunEnd(k))))

\* C16, amended: the second of two equal runs adds to the report the same
\* blocks as the first added, function order within a block aside.
C16_SecondRunRepeatsBlocks ==
    \A k \in 1..Len(runs) :
        SameRunTwice(k) =>
            BlocksOf(FileLines(RunText(k + 1))) = BlocksOf(FileLines(RunText(k)))

\* C16 witness: two equal runs over two matching files have ended, each
\* having added two blocks.
C16_Witness ==
    /\ SameRunTwice(1)
    /\ Len(BlocksOf(FileLines(RunText(1)))) = 2
    /\ Len(BlocksOf(FileLines(RunText(2)))) = 2
    /\ Len(BlocksOf(FileLines(report))) = 4

\* The file f of the source tree has a function that main's filters retain
\* and that passes a non-empty literal to the sentinel.
HasMatch(f) ==
    /\ tree[f].ok
    /\ \E k \in 1..Len(tree[f].unit) :
          LET c == tree[f].unit[k]
          IN  /\ c.kind = "FUNCTION_DECL"
              /\ c.file = FileName(f)
              /\ main_globals_only => StartsWith(c.spelling, ZifPrefix)
              /\ WellShaped(c)
              /\ Collected(c) # {}

\* C17: when a run in all-files mode has ended, every file of the mapping
\* has been handed to index.parse, and every file with a match has its
\* block in what the run added to the report, whatever happened to the
\* other files.
C17_FailureSkipsOneFile ==
    (main_pc = "exited" /\ Loaded /\ ~SingleFileMode) =>
        \A f \in DOMAIN load_result :
            /\ \E i \in 1..Len(parsed) : parsed[i] = f
            /\ HasMatch(f) =>
                  \E i \in 1..Len(FileLines(AppendedInRun)) :
                      Words(FileLines(AppendedInRun)[i]) = << <<"#">>, f >>

\* C22: in all-files mode at most one translation unit is held at any moment,
\* and none is held when main is about to call index.parse for the next file
\* or has left its loop: the unit of a file is released when the scan of
\* that file is complete.
C22_OneUnitAtATime ==
    (main_pc # "idle" /\ ~SingleFileMode) =>
        /\ Cardinality(held) <= 1
        /\ main_pc = "parse" => held = {}

\* The non-literal sentinel calls processed by all the threads.
RECURSIVE NonLiteralTotal(_)
NonLiteralTotal(ids) ==
    IF ids = {} THEN 0
    ELSE LET w == CHOOSE x \in ids : TRUE
         IN  workers[w].nonliteral + NonLiteralTotal(ids \ {w})

AllWorkersDone == \A w \in DOMAIN workers : workers[w].pc = "returned"

\* C23: when threads scan functions concurrently, then after all of them
\* have finished VAR_ARG_COUNT is the number of non-literal sentinel calls
\* they processed, under every interleaving of the read and the write of the
\* increment.
C23_NoLostUpdate ==
    (workers # <<>> /\ AllWorkersDone) =>
        VAR_ARG_COUNT = NonLiteralTotal(DOMAIN workers)

\* The header lines and the function lines of a text of the report.
HeaderCount(text) ==
    Cardinality({i \in 1..Len(FileLines(text)) : IsHeader(FileLines(text)[i])})
FuncLineCount(text) ==
    Cardinality({i \in 1..Len(FileLines(text)) : ~IsHeader(FileLines(text)[i])})

\* main is between two files of its loop, or has completed.
BetweenFiles ==
    \/ main_pc = "parse"
    \/ main_pc = "exited" /\ main_outcome = "return None"

\* C27: after each file of the loop and at the end of a run that completes,
\* func_count is the number of function lines and file_count the number of
\* header lines that the run has appended to the report; taking the result
\* of a file without matching function changes neither counter nor the
\* report.
C27_CountersMatchReport ==
    /\ [](BetweenFiles =>
            /\ file_count = HeaderCount(AppendedInRun)
            /\ func_count = FuncLineCount(AppendedInRun))
    /\ [][ (ScanReturnedStep /\ DOMAIN scan_result = {})
              => /\ file_count' = file_count
                 /\ func_count' = func_count
                 /\ report' = report ]_vars

\* C27 witness: a second run over two matching files has completed, having
\* counted two files and three functions, after a first run that wrote to
\* the report.
C27_Witness ==
    /\ main_pc = "exited"
    /\ main_outcome = "return None"
    /\ Len(runs) = 2
    /\ RunStart > 0
    /\ file_count = 2
    /\ func_count = 3
    /\ HeaderCount(AppendedInRun) = 2

====
